---- MODULE Spec2Model ----
(***************************************************************************)
(* pyjs9: the JS9 client class of src/pyjs9/__init__.py.                   *)
(*                                                                         *)
(* Two specifications share this module:                                   *)
(*   Spec       the client life cycle (constructor with its probe loop,    *)
(*              item assignment, operation calls, close) on both           *)
(*              transports, with the socket callback thread interleaved;   *)
(*   SpecReply  the reply handling at the end of send, applied to every    *)
(*              reply text up to MaxLen tokens.                            *)
(***************************************************************************)
EXTENDS Integers, Sequences, FiniteSets, TLC

(***************************************************************************)
(* Reply texts.  A text is a sequence of tokens; each token stands for a   *)
(* piece of a Python str that the code tells apart.                        *)
(***************************************************************************)
SP == " "
ERR == "ERROR:"
INST == "JS9 instance(s) found with id"
CH == "x"
QUOTE == "\""
DIGIT == "1"

Tokens == {SP, ERR, INST, CH, QUOTE, DIGIT}

\* the longest reply text SpecReply draws
MaxLen == 3

RECURSIVE SeqsUpTo(_, _)
SeqsUpTo(S, n) ==
    IF n = 0 THEN {<<>>}
    ELSE LET shorter == SeqsUpTo(S, n - 1)
         IN  shorter \cup {Append(s, x) : s \in {t \in shorter : Len(t) = n - 1}, x \in S}

Texts == SeqsUpTo(Tokens, MaxLen)

\* Python: tok in text
Contains(text, tok) == \E i \in 1..Len(text) : text[i] = tok

RECURSIVE LStrip(_)
LStrip(text) ==
    IF text # <<>> /\ Head(text) = SP THEN LStrip(Tail(text)) ELSE text

RECURSIVE RStrip(_)
RStrip(text) ==
    IF text # <<>> /\ text[Len(text)] = SP
    THEN RStrip(SubSeq(text, 1, Len(text) - 1))
    ELSE text

\* Python: text.strip()
Strip(text) == RStrip(LStrip(text))

\* Python values: a str, an int, a dict (val: the text inside it)
StrVal(text) == [type |-> "str", val |-> text]
IntVal(digits) == [type |-> "int", val |-> digits]
DictVal(text) == [type |-> "dict", val |-> text]

\* the JSON text of an image data object
IMJSON == "{image}"

\* the JSON documents the tokens can spell, surrounding whitespace removed:
\* a string literal, a number, or the image data object
IsJsonString(body) ==
    /\ Len(body) >= 2
    /\ body[1] = QUOTE
    /\ body[Len(body)] = QUOTE
    /\ \A i \in 2..(Len(body) - 1) : body[i] # QUOTE

IsJsonNumber(body) ==
    /\ body # <<>>
    /\ \A i \in 1..Len(body) : body[i] = DIGIT

IsJsonObject(body) == body = <<IMJSON>>

IsJson(text) ==
    IsJsonString(Strip(text)) \/ IsJsonNumber(Strip(text)) \/ IsJsonObject(Strip(text))

\* Python: json.loads(text), for a text that IsJson
JsonLoads(text) ==
    LET body == Strip(text)
    IN  IF IsJsonString(body)
        THEN StrVal(SubSeq(body, 2, Len(body) - 1))
        ELSE IF IsJsonObject(body) THEN DictVal(body)
        ELSE IntVal(body)

\* how a call ends: it returns a value or raises an exception with a message
NoValue == [type |-> "none", val |-> <<>>]
Returned(v) == [kind |-> "return", exc |-> "", value |-> v]
Raised(exc, msg) == [kind |-> "raise", exc |-> exc, value |-> StrVal(msg)]

\* Python: bool(v)
Truthy(v) == v.val # <<>>

\* send, html branch, from the response text on
HttpReplyPrefixOnly(urtn) ==
    IF urtn # <<>> /\ Head(urtn) = ERR
    THEN Raised("ValueError", urtn)
    ELSE IF IsJson(urtn)
         THEN Returned(JsonLoads(urtn))
         ELSE Returned(StrVal(Strip(urtn)))

HttpReply(urtn) ==
    IF Contains(urtn, ERR)
    THEN Raised("ValueError", urtn)
    ELSE IF IsJson(urtn)
         THEN Returned(JsonLoads(urtn))
         ELSE Returned(StrVal(Strip(urtn)))

\* send, socketio branch, from the read of the result placeholder on
SockReply(res) ==
    IF Truthy(res) /\ res.type = "str" /\ Contains(res.val, ERR)
    THEN Raised("ValueError", res.val)
    ELSE Returned(res)

(***************************************************************************)
(* The clients and their environment.                                      *)
(***************************************************************************)
\* "a" is driven through every call; "b" is a second instance of the class
\* in the same process, which is only constructed (without probes)
Clients == {"a", "b"}
Driver == "a"

Hosts == {"h1", "h2"}
\* the hosts on which no helper answers
Down == {"h2"}
Ids == {"JS9", "JS9b"}
None == "None"
PyFalse == "False"
PyTrue == "True"
PyBools == {PyFalse, PyTrue}
PageIds == {None, "page1"}
Items == {"id", "host", "multi", "pageid"}
Cmds == {"SetColormap"}

\* js9Globals['wait'] with and without python-socketio
SocketioWait == 10
HtmlWait == 0

\* the most item assignments and operation calls made on the driven client
MaxCalls == 2
MaxCallsOf(c) == IF c = Driver THEN MaxCalls ELSE 0

\* the constructor arguments tried: the defaults of the signature and one
\* call with every argument changed, for the driven client; the defaults
\* for the other
CtorArgs(c) ==
    {[host |-> "h1", id |-> "JS9", multi |-> PyFalse, pageid |-> None]}
    \cup (IF c = Driver
          THEN {[host |-> "h2", id |-> "JS9b", multi |-> PyTrue, pageid |-> "page1"]}
          ELSE {})
MaxTriesTried(c) == IF c = Driver THEN {0, 1, 2} ELSE {0}

\* the reply texts and socket callback values the helper answers with in Spec
CoreTexts == {<<SP, CH>>, <<ERR, CH>>, <<ERR, INST>>}
CoreValues == {StrVal(t) : t \in CoreTexts}

VARIABLES
    js9Globals,   \* the module's global settings: transport, wait, retrieveAs
    self,         \* per client: the object's attributes
    thread,       \* per client: the calling thread, inside or between calls
    cbthread,     \* per client: the socketio thread that runs sockioCB
    inflight,     \* per client: the emitted messages whose callback is due
    wire,         \* per client: what the current call has transmitted
    hist,         \* per client: history the claims refer to
    atstart,      \* the transport chosen when the module was imported
    reply,        \* SpecReply: transport kind, reply read, how send ended
    call          \* SpecCall: one call of a method or helper, and how it ended

vars == <<js9Globals, self, thread, cbthread, inflight, wire, hist, atstart, reply, call>>

NoOutcome == [kind |-> "none", exc |-> "", value |-> NoValue]
NoObj == [cmd |-> None, id |-> None, multi |-> PyFalse, haspageid |-> FALSE, pageid |-> None]
NoWire == [n |-> 0, obj |-> NoObj, via |-> "", dest |-> "", msg |-> ""]
NoReply == [transport |-> "", read |-> NoValue, outcome |-> NoOutcome]
NoCall == [fn |-> "", done |-> FALSE]

\* the state of the process after "import pyjs9", before any JS9()
InitGlobals ==
    js9Globals \in {[transport |-> "socketio", wait |-> SocketioWait,
                     retrieveAs |-> "array", fits |-> 1, numpy |-> 1],
                    [transport |-> "html", wait |-> HtmlWait, retrieveAs |-> "array",
                     fits |-> 1, numpy |-> 1]}

InitClients ==
    /\ self = [c \in Clients |->
                 [id |-> None, host |-> None, multi |-> PyFalse, pageid |-> None,
                  sockioResult |-> NoValue,
                  sockio |-> [state |-> "none", host |-> None],
                  block_cb |-> 0, lock |-> "free"]]
    /\ thread = [c \in Clients |->
                   [pc |-> "new", ctx |-> "", via |-> "", obj |-> NoObj, msg |-> "",
                    tries |-> 0, maxtries |-> 0, item |-> "", value |-> None,
                    timeout |-> 0, woke |-> "", calls |-> 0, outcome |-> NoOutcome]]
    /\ cbthread = [c \in Clients |-> [pc |-> "idle", cond |-> 0]]
    /\ inflight = [c \in Clients |-> {}]
    /\ wire = [c \in Clients |-> NoWire]
    /\ hist = [c \in Clients |->
                 [ctorhost |-> None, opened |-> FALSE, transport |-> "",
                  instfail |-> FALSE,
                  ctor |-> "", resultOf |-> 0, emptyAtTimeout |-> FALSE]]

Init ==
    /\ InitGlobals /\ InitClients /\ atstart = js9Globals.transport
    /\ reply = NoReply /\ call = NoCall

(***************************************************************************)
(* send: the object is completed and the transport branch is taken.  The   *)
(* html branch runs to its end here (requests.post blocks the caller);     *)
(* the socketio branch resets the result placeholder, makes the Condition  *)
(* of this call and takes its lock, and goes on below.                     *)
(* me, th, w, h: the client's attributes, thread, transmissions and        *)
(* history as the caller leaves them; urtn: the text the helper answers    *)
(* an html request with.                                                   *)
(***************************************************************************)
AttachAlwaysPageid(me, obj) ==
    [cmd |-> obj.cmd, id |-> me.id, multi |-> me.multi,
     haspageid |-> TRUE, pageid |-> me.pageid]

Attach(me, obj) ==
    [cmd |-> obj.cmd, id |-> me.id, multi |-> me.multi,
     haspageid |-> (obj.haspageid \/ me.pageid # None),
     pageid |-> IF me.pageid # None THEN me.pageid ELSE obj.pageid]

\* IOError('Cannot connect to {0}: {1}'.format(host, e))
CannotConnect == Raised("IOError", <<CH>>)

SendBegin(me, th, w, h, obj, msg, urtn) ==
    LET o == Attach(me, obj)
    IN  IF js9Globals.transport = "html"
        THEN [self |-> me,
              thread |-> [th EXCEPT !.pc = "sent", !.via = "html", !.obj = o,
                                    !.msg = msg,
                                    !.outcome = IF me.host \in Down
                                                THEN CannotConnect
                                                ELSE HttpReply(urtn)],
              wire |-> [n |-> w.n + 1, obj |-> o, via |-> "html",
                        dest |-> me.host, msg |-> msg],
              hist |-> h]
        ELSE \* self.__dict__['sockioResult'] = ''
             \* self._block_cb = Condition(); self._block_cb.acquire()
             [self |-> [me EXCEPT !.sockioResult = StrVal(<<>>),
                                  !.block_cb = @ + 1, !.lock = "main"],
              thread |-> [th EXCEPT !.pc = "s_emit", !.via = "socketio", !.obj = o,
                                    !.msg = msg, !.outcome = NoOutcome],
              wire |-> w,
              hist |-> [h EXCEPT !.resultOf = 0, !.emptyAtTimeout = FALSE]]

\* a loop that goes round while tries <= maxtries
LoopHeadInclusive(th) ==
    IF th.tries <= th.maxtries
    THEN [th EXCEPT !.pc = "probe"]
    ELSE [th EXCEPT !.pc = "ready", !.ctx = "", !.tries = 0, !.maxtries = 0]

\* while tries < maxtries: the next probe, or the constructor returns
LoopHead(th) ==
    IF th.tries < th.maxtries
    THEN [th EXCEPT !.pc = "probe"]
    ELSE [th EXCEPT !.pc = "ready", !.ctx = "", !.tries = 0, !.maxtries = 0]

\* the program has one caller thread: no call starts on a client while the
\* thread is inside a call on another
Busy(c) == thread[c].pc \notin {"new", "ready", "closed"}

\* a constructor that keeps the socketio transport when the connection fails
ConstructNoFallback(c, args, mt, connects) ==
    /\ thread[c].pc = "new"
    /\ \A o \in Clients \ {c} : ~Busy(o)
    /\ connects => args.host \notin Down
    /\ LET sock == js9Globals.transport = "socketio"
           th == LoopHead([thread[c] EXCEPT !.ctx = "init", !.tries = 0,
                                            !.maxtries = mt])
       IN  /\ self' = [self EXCEPT ![c] =
                         [@ EXCEPT !.id = args.id, !.host = args.host,
                                   !.multi = args.multi, !.pageid = args.pageid,
                                   !.sockio = IF sock
                                              THEN [state |-> IF connects THEN "connected"
                                                              ELSE "unconnected",
                                                    host |-> args.host]
                                              ELSE @,
                                   !.block_cb = 0]]
           /\ js9Globals' = js9Globals
           /\ thread' = [thread EXCEPT ![c] = th]
           /\ hist' = [hist EXCEPT ![c] =
                         [@ EXCEPT !.ctorhost = args.host, !.opened = sock /\ connects,
                                   !.transport = js9Globals'.transport,
                                   !.ctor = IF th.pc = "ready" THEN "returned"
                                            ELSE "running"]]
    /\ UNCHANGED <<cbthread, inflight, wire, atstart, reply, call>>

\* JS9.__init__ up to the first probe
Construct(c, args, mt, connects) ==
    /\ thread[c].pc = "new"
    /\ \A o \in Clients \ {c} : ~Busy(o)
    /\ connects => args.host \notin Down
    /\ LET sock == js9Globals.transport = "socketio"
           th == LoopHead([thread[c] EXCEPT !.ctx = "init", !.tries = 0,
                                            !.maxtries = mt])
       IN  /\ self' = [self EXCEPT ![c] =
                         [@ EXCEPT !.id = args.id, !.host = args.host,
                                   !.multi = args.multi, !.pageid = args.pageid,
                                   !.sockio = IF sock
                                              THEN [state |-> IF connects THEN "connected"
                                                              ELSE "unconnected",
                                                    host |-> args.host]
                                              ELSE @,
                                   !.block_cb = 0]]
           /\ js9Globals' = IF sock /\ ~connects
                            THEN [js9Globals EXCEPT !.transport = "html"]
                            ELSE js9Globals
           /\ thread' = [thread EXCEPT ![c] = th]
           /\ hist' = [hist EXCEPT ![c] =
                         [@ EXCEPT !.ctorhost = args.host, !.opened = sock /\ connects,
                                   !.transport = js9Globals'.transport,
                                   !.ctor = IF th.pc = "ready" THEN "returned"
                                            ELSE "running"]]
    /\ UNCHANGED <<cbthread, inflight, wire, atstart, reply, call>>

\* the body of the probe loop: self._alive()
Probe(c, urtn) ==
    /\ thread[c].pc = "probe"
    /\ LET r == SendBegin(self[c], thread[c], wire[c], hist[c], NoObj, "alive", urtn)
       IN  /\ self' = [self EXCEPT ![c] = r.self]
           /\ thread' = [thread EXCEPT ![c] = r.thread]
           /\ wire' = [wire EXCEPT ![c] = r.wire]
           /\ hist' = [hist EXCEPT ![c] = r.hist]
    /\ UNCHANGED <<js9Globals, cbthread, inflight, atstart, reply, call>>

\* JS9.__setitem__
SetItem(c, itemname, value, urtn) ==
    /\ thread[c].pc = "ready"
    /\ \A o \in Clients \ {c} : ~Busy(o)
    /\ thread[c].calls < MaxCallsOf(c)
    /\ LET me == [self[c] EXCEPT ![itemname] = value]
           th == [thread[c] EXCEPT !.ctx = "setitem", !.item = itemname,
                                   !.value = value, !.calls = @ + 1]
       IN  IF itemname \in {"host", "id"}
           THEN LET r == SendBegin(me, th, NoWire, hist[c], NoObj, "alive", urtn)
                IN  /\ self' = [self EXCEPT ![c] = r.self]
                    /\ thread' = [thread EXCEPT ![c] = r.thread]
                    /\ wire' = [wire EXCEPT ![c] = r.wire]
                    /\ hist' = [hist EXCEPT ![c] = r.hist]
           ELSE /\ self' = [self EXCEPT ![c] = me]
                /\ thread' = [thread EXCEPT ![c] =
                                [th EXCEPT !.pc = "sent", !.outcome = Returned(NoValue)]]
                /\ wire' = [wire EXCEPT ![c] = NoWire]
                /\ UNCHANGED hist
    /\ UNCHANGED <<js9Globals, cbthread, inflight, atstart, reply, call>>

\* a pass-through operation method: self.send({'cmd': cmd, 'args': args})
Op(c, cmd, urtn) ==
    /\ thread[c].pc = "ready"
    /\ \A o \in Clients \ {c} : ~Busy(o)
    /\ thread[c].calls < MaxCallsOf(c)
    /\ LET th == [thread[c] EXCEPT !.ctx = "op", !.calls = @ + 1]
           r == SendBegin(self[c], th, NoWire, hist[c], [NoObj EXCEPT !.cmd = cmd],
                          "msg", urtn)
       IN  /\ self' = [self EXCEPT ![c] = r.self]
           /\ thread' = [thread EXCEPT ![c] = r.thread]
           /\ wire' = [wire EXCEPT ![c] = r.wire]
           /\ hist' = [hist EXCEPT ![c] = r.hist]
    /\ UNCHANGED <<js9Globals, cbthread, inflight, atstart, reply, call>>

(***************************************************************************)
(* send, socketio branch, from the emit on.                                *)
(***************************************************************************)
\* an emit that is sent again
SockEmitTwice(c) ==
    /\ thread[c].pc = "s_emit"
    /\ inflight' = [inflight EXCEPT ![c] = @ \cup {self[c].block_cb}]
    /\ wire' = [wire EXCEPT ![c] = [n |-> @.n + 2, obj |-> thread[c].obj,
                                    via |-> "socketio", dest |-> self[c].sockio.host,
                                    msg |-> "msg"]]
    /\ thread' = [thread EXCEPT ![c] = [@ EXCEPT !.pc = "s_wait"]]
    /\ UNCHANGED <<js9Globals, self, cbthread, hist, atstart, reply, call>>

\* self.sockio.emit('msg', obj, callback=self.sockioCB)
SockEmit(c) ==
    /\ thread[c].pc = "s_emit"
    /\ inflight' = [inflight EXCEPT ![c] = @ \cup {self[c].block_cb}]
    /\ wire' = [wire EXCEPT ![c] = [n |-> @.n + 1, obj |-> thread[c].obj,
                                    via |-> "socketio", dest |-> self[c].sockio.host,
                                    msg |-> "msg"]]
    /\ thread' = [thread EXCEPT ![c] = [@ EXCEPT !.pc = "s_wait"]]
    /\ UNCHANGED <<js9Globals, self, cbthread, hist, atstart, reply, call>>

\* a wait() without the timeout argument
SockWaitNoTimeout(c) ==
    /\ thread[c].pc = "s_wait"
    /\ self' = [self EXCEPT ![c] = [@ EXCEPT !.lock = "free"]]
    /\ thread' = [thread EXCEPT ![c] = [@ EXCEPT !.pc = "waiting", !.timeout = -1]]
    /\ UNCHANGED <<js9Globals, cbthread, inflight, wire, hist, atstart, reply, call>>

\* self._block_cb.wait(timeout=js9Globals['wait']): the lock is released
SockWait(c) ==
    /\ thread[c].pc = "s_wait"
    /\ self' = [self EXCEPT ![c] = [@ EXCEPT !.lock = "free"]]
    /\ thread' = [thread EXCEPT ![c] = [@ EXCEPT !.pc = "waiting",
                                                 !.timeout = js9Globals.wait]]
    /\ UNCHANGED <<js9Globals, cbthread, inflight, wire, hist, atstart, reply, call>>

\* the wait ends because its timeout has elapsed (time is not measured: the
\* seconds of the timeout may have passed at any moment of the wait; a
\* negative timeout stands for a wait without one, which never ends so)
Timeout(c) ==
    /\ thread[c].pc = "waiting"
    /\ thread[c].timeout >= 0
    /\ thread' = [thread EXCEPT ![c] = [@ EXCEPT !.pc = "woken", !.woke = "timeout"]]
    /\ hist' = [hist EXCEPT ![c] = [@ EXCEPT !.emptyAtTimeout = (hist[c].resultOf = 0)]]
    /\ UNCHANGED <<js9Globals, self, cbthread, inflight, wire, atstart, reply, call>>

\* send reads the placeholder only between its reset and the end of the call
Live(c) == thread[c].pc \in {"s_emit", "s_wait", "waiting", "woken"}

\* wait() gets its lock back; release(); the placeholder is read and send ends.
\* What the placeholder holds from here to the next reset is never read, and
\* is not kept.
SockResume(c) ==
    /\ thread[c].pc = "woken"
    /\ self[c].lock = "free"
    /\ thread' = [thread EXCEPT ![c] = [@ EXCEPT !.pc = "sent", !.timeout = 0,
                                                 !.outcome = SockReply(self[c].sockioResult)]]
    /\ self' = [self EXCEPT ![c] = [@ EXCEPT !.sockioResult = NoValue]]
    /\ UNCHANGED <<js9Globals, cbthread, inflight, wire, hist, atstart, reply, call>>

(***************************************************************************)
(* sockioCB, run by the socketio client's thread when the helper answers   *)
(* message k with value v.                                                 *)
(***************************************************************************)
\* self.__dict__['sockioResult'] = args[0]
CbStore(c, k, v) ==
    /\ cbthread[c].pc = "idle"
    /\ k \in inflight[c]
    /\ self[c].sockio.state = "connected"
    /\ self' = [self EXCEPT ![c] = [@ EXCEPT !.sockioResult = IF Live(c) THEN v
                                                               ELSE NoValue]]
    /\ hist' = [hist EXCEPT ![c] = [@ EXCEPT !.resultOf = IF Live(c) THEN k ELSE @]]
    /\ inflight' = [inflight EXCEPT ![c] = @ \ {k}]
    /\ cbthread' = [cbthread EXCEPT ![c] = [@ EXCEPT !.pc = "stored"]]
    /\ UNCHANGED <<js9Globals, thread, wire, atstart, reply, call>>

\* self._block_cb.acquire(): the lock of the Condition that is current now
CbAcquire(c) ==
    /\ cbthread[c].pc = "stored"
    /\ self[c].lock = "free"
    /\ self' = [self EXCEPT ![c] = [@ EXCEPT !.lock = "cb"]]
    /\ cbthread' = [cbthread EXCEPT ![c] = [pc |-> "locked", cond |-> self[c].block_cb]]
    /\ UNCHANGED <<js9Globals, thread, inflight, wire, hist, atstart, reply, call>>

\* self._block_cb.notify(); self._block_cb.release(): both fail, and wake
\* nobody, when send has replaced the Condition since the acquire
CbNotify(c) ==
    /\ cbthread[c].pc = "locked"
    /\ IF cbthread[c].cond = self[c].block_cb
       THEN /\ self' = [self EXCEPT ![c] = [@ EXCEPT !.lock = "free"]]
            /\ thread' = IF thread[c].pc = "waiting"
                         THEN [thread EXCEPT ![c] = [@ EXCEPT !.pc = "woken",
                                                              !.woke = "notify"]]
                         ELSE thread
       ELSE UNCHANGED <<self, thread>>
    /\ cbthread' = [cbthread EXCEPT ![c] = [pc |-> "idle", cond |-> 0]]
    /\ UNCHANGED <<js9Globals, inflight, wire, hist, atstart, reply, call>>

(***************************************************************************)
(* send has ended: control is back in the caller.                          *)
(***************************************************************************)
\* the probe failed with the helper's report that no JS9 instance has the id
InstanceFailure(out) == out.kind = "raise" /\ Contains(out.value.val, INST)

\* except Exception as e, not an instance error: sleep and try again
RetryAny(out) == out.kind = "raise"

Retry(out) == out.kind = "raise" /\ ~InstanceFailure(out)

Return(c) ==
    /\ thread[c].pc = "sent"
    /\ LET out == thread[c].outcome
           th == [thread[c] EXCEPT !.outcome = NoOutcome, !.via = "", !.obj = NoObj,
                                   !.msg = "", !.woke = "", !.item = "",
                                   !.value = None]
       IN  IF thread[c].ctx = "init"
           THEN IF Retry(out)
                THEN \* time.sleep(delay); tries = tries + 1: the next probe, if any
                     LET nxt == LoopHead([th EXCEPT !.tries = @ + 1])
                     IN  /\ thread' = [thread EXCEPT ![c] = nxt]
                         /\ hist' = [hist EXCEPT ![c] =
                                       [@ EXCEPT !.ctor = IF nxt.pc = "ready"
                                                          THEN "returned" ELSE @,
                                                 !.instfail = InstanceFailure(out)]]
                         /\ wire' = [wire EXCEPT ![c] =
                                       IF nxt.pc = "ready" THEN NoWire ELSE @]
                ELSE \* print(e); break, or the else: break of a good probe
                     /\ thread' = [thread EXCEPT ![c] =
                                     [th EXCEPT !.pc = "ready", !.ctx = "",
                                                !.tries = 0, !.maxtries = 0]]
                     /\ hist' = [hist EXCEPT ![c] =
                                   [@ EXCEPT !.ctor = "returned",
                                             !.instfail = InstanceFailure(out)]]
                     /\ wire' = [wire EXCEPT ![c] = NoWire]
           ELSE \* __setitem__ and the operation methods pass on what send did
                /\ thread' = [thread EXCEPT ![c] = [th EXCEPT !.pc = "ready", !.ctx = ""]]
                /\ wire' = [wire EXCEPT ![c] = NoWire]
                /\ UNCHANGED hist
    /\ UNCHANGED <<js9Globals, self, cbthread, inflight, atstart, reply, call>>

\* JS9.close
Close(c) ==
    /\ c = Driver
    /\ thread[c].pc = "ready"
    /\ \A o \in Clients \ {c} : ~Busy(o)
    /\ self' = [self EXCEPT ![c] =
                  [@ EXCEPT !.sockio = IF js9Globals.transport = "socketio"
                                          /\ @.state = "connected"
                                       THEN [@ EXCEPT !.state = "disconnected"]
                                       ELSE @]]
    /\ thread' = [thread EXCEPT ![c] = [@ EXCEPT !.pc = "closed"]]
    /\ UNCHANGED <<js9Globals, cbthread, inflight, wire, hist, atstart, reply, call>>

ItemValues(itemname) ==
    CASE itemname = "id" -> Ids
      [] itemname = "host" -> Hosts
      [] itemname = "multi" -> PyBools
      [] OTHER -> PageIds

Next ==
    \E c \in Clients :
        \/ \E args \in CtorArgs(c), mt \in MaxTriesTried(c), connects \in BOOLEAN :
              Construct(c, args, mt, connects)
        \/ \E urtn \in CoreTexts : Probe(c, urtn)
        \/ \E itemname \in Items, urtn \in CoreTexts :
              \E value \in ItemValues(itemname) : SetItem(c, itemname, value, urtn)
        \/ \E cmd \in Cmds, urtn \in CoreTexts : Op(c, cmd, urtn)
        \/ SockEmit(c)
        \/ SockWait(c)
        \/ Timeout(c)
        \/ SockResume(c)
        \/ \E k \in inflight[c], v \in CoreValues : CbStore(c, k, v)
        \/ CbAcquire(c)
        \/ CbNotify(c)
        \/ Return(c)
        \/ Close(c)

Spec == Init /\ [][Next]_vars

(***************************************************************************)
(* SpecReply: the end of send on every reply.  The html branch reads the   *)
(* response text; the socketio branch reads what the callback stored: a    *)
(* str, or a value the socketio library has already decoded.               *)
(***************************************************************************)
ReplyValues ==
    {StrVal(t) : t \in Texts} \cup {DictVal(<<>>), DictVal(<<ERR>>), IntVal(<<DIGIT>>)}

InitReply ==
    /\ reply \in {[transport |-> "html", read |-> StrVal(t), outcome |-> NoOutcome] :
                    t \in Texts}
                 \cup {[transport |-> "socketio", read |-> v, outcome |-> NoOutcome] :
                         v \in ReplyValues}
    /\ js9Globals = [transport |-> reply.transport,
                     wait |-> IF reply.transport = "html" THEN HtmlWait ELSE SocketioWait,
                     retrieveAs |-> "array", fits |-> 1, numpy |-> 1]
    /\ atstart = js9Globals.transport
    /\ InitClients
    /\ call = NoCall

ReplyHtml ==
    /\ reply.transport = "html"
    /\ reply.outcome = NoOutcome
    /\ reply' = [reply EXCEPT !.outcome = HttpReply(reply.read.val)]
    /\ UNCHANGED <<js9Globals, self, thread, cbthread, inflight, wire, hist, atstart, call>>

ReplySock ==
    /\ reply.transport = "socketio"
    /\ reply.outcome = NoOutcome
    /\ reply' = [reply EXCEPT !.outcome = SockReply(reply.read)]
    /\ UNCHANGED <<js9Globals, self, thread, cbthread, inflight, wire, hist, atstart, call>>

NextReply == ReplyHtml \/ ReplySock

SpecReply == InitReply /\ [][NextReply]_vars

(***************************************************************************)
(* SpecCall: one call of a public method or of a module helper, from its   *)
(* arguments to its end.  call.in holds the arguments, call.sent the       *)
(* objects the call has passed to send, call.narr the element type of the  *)
(* array SetNumpy converts to, call.out how the call ended.                *)
(***************************************************************************)
NewCall(fn, in) ==
    [fn |-> fn, in |-> in, done |-> FALSE, sent |-> <<>>, narr |-> None,
     out |-> NoOutcome]

\* the pass-through methods called: def <method>(self, *args)
Methods == {"Load", "GetColormap", "SetColormap", "ImarithData", "ShiftData"}

\* the 'cmd' of the object each of them builds
CmdOf(method) ==
    CASE method = "Load" -> "Load"
      [] method = "GetColormap" -> "GetColormap"
      [] method = "SetColormap" -> "SetColormap"
      [] method = "ImarithData" -> "ImarithData"
      [] method = "ShiftData" -> "ImarithData"

ArgVals == {"red", "x", "y"}
MaxArgs == 2
MethodCalls ==
    {NewCall("method", [method |-> m, args |-> a]) :
        m \in Methods, a \in SeqsUpTo(ArgVals, MaxArgs)}

\* return self.send({'cmd': ..., 'args': args})
Method ==
    /\ call.fn = "method" /\ ~call.done
    /\ call' = [call EXCEPT !.done = TRUE,
                            !.sent = Append(@, [cmd |-> CmdOf(call.in.method),
                                                args |-> call.in.args])]
    /\ UNCHANGED <<js9Globals, self, thread, cbthread, inflight, wire, hist, atstart, reply>>

(***************************************************************************)
(* The host argument of the constructor.  A host is a sequence of tokens   *)
(* in which ':' and '/' stand alone, so that find and rfind order the      *)
(* positions as they do on the characters.                                 *)
(***************************************************************************)
COLON == ":"
SLASH == "/"
HttpPrefix == <<"http", COLON, SLASH, SLASH>>
DefaultPort == <<COLON, "2718">>

Schemes == {<<>>, HttpPrefix, <<"https", COLON, SLASH, SLASH>>}
HostNames == {<<"localhost">>, <<"example", ".", "org">>}
Ports == {<<>>, <<COLON, "9000">>}
Paths == {<<>>, <<SLASH, "js9">>}

\* str.find: the lowest index (from 0) of tok in text, -1 when absent
Find(text, tok) ==
    IF Contains(text, tok)
    THEN (CHOOSE i \in 1..Len(text) :
             text[i] = tok /\ \A j \in 1..(i - 1) : text[j] # tok) - 1
    ELSE -1

\* str.rfind: the highest index (from 0) of tok in text, -1 when absent
RFind(text, tok) ==
    IF Contains(text, tok)
    THEN (CHOOSE i \in 1..Len(text) :
             text[i] = tok /\ \A j \in (i + 1)..Len(text) : text[j] # tok) - 1
    ELSE -1

\* add default port, if necessary; then the prefix
NormaliseHost(host) ==
    LET c == RFind(host, COLON)
        s == Find(host, SLASH)
        ported == IF c <= s THEN host \o DefaultPort ELSE host
    IN  IF s < 0 THEN HttpPrefix \o ported ELSE ported

HostCalls ==
    {NewCall("host", [scheme |-> sc, name |-> nm, port |-> pt, path |-> pa,
                      host |-> sc \o nm \o pt \o pa]) :
        sc \in Schemes, nm \in HostNames, pt \in Ports, pa \in Paths}

\* self.__dict__['host'] = host
HostArg ==
    /\ call.fn = "host" /\ ~call.done
    /\ call' = [call EXCEPT !.done = TRUE,
                            !.out = Returned(StrVal(NormaliseHost(call.in.host)))]
    /\ UNCHANGED <<js9Globals, self, thread, cbthread, inflight, wire, hist, atstart, reply>>

(***************************************************************************)
(* The numpy-dependent helpers.                                            *)
(***************************************************************************)
DTypeVal(t) == [type |-> "dtype", val |-> <<t>>]
NumVal(n) == [type |-> "num", val |-> <<n>>]

\* the element types of the arrays given, the seven with a bitpix code first
DTypes == {"uint8", "int16", "int32", "int64", "float32", "float64", "uint16",
           "int8", "uint32", "uint64", "float16", "complex64"}

MaxBitpix == 64
Bitpixes == (0 - MaxBitpix)..MaxBitpix

\* _bp2np: convert FITS bitpix to numpy datatype
Bp2np(bitpix) ==
    IF bitpix = 8 THEN Returned(DTypeVal("uint8"))
    ELSE IF bitpix = 16 THEN Returned(DTypeVal("int16"))
    ELSE IF bitpix = 32 THEN Returned(DTypeVal("int32"))
    ELSE IF bitpix = 64 THEN Returned(DTypeVal("int64"))
    ELSE IF bitpix = -32 THEN Returned(DTypeVal("float32"))
    ELSE IF bitpix = -64 THEN Returned(DTypeVal("float64"))
    ELSE IF bitpix = -16 THEN Returned(DTypeVal("uint16"))
    ELSE Raised("ValueError", <<"unsupported bitpix">>)

\* a table without the code of uint16
Np2bpNoUint16(dtype) ==
    IF dtype = "uint8" THEN Returned(NumVal(8))
    ELSE IF dtype = "int16" THEN Returned(NumVal(16))
    ELSE IF dtype = "int32" THEN Returned(NumVal(32))
    ELSE IF dtype = "int64" THEN Returned(NumVal(64))
    ELSE IF dtype = "float32" THEN Returned(NumVal(-32))
    ELSE IF dtype = "float64" THEN Returned(NumVal(-64))
    ELSE Raised("ValueError", <<"unsupported dtype">>)

\* _np2bp: convert numpy datatype to FITS bitpix
Np2bp(dtype) ==
    IF dtype = "uint8" THEN Returned(NumVal(8))
    ELSE IF dtype = "int16" THEN Returned(NumVal(16))
    ELSE IF dtype = "int32" THEN Returned(NumVal(32))
    ELSE IF dtype = "int64" THEN Returned(NumVal(64))
    ELSE IF dtype = "float32" THEN Returned(NumVal(-32))
    ELSE IF dtype = "float64" THEN Returned(NumVal(-64))
    ELSE IF dtype = "uint16" THEN Returned(NumVal(-16))
    ELSE Raised("ValueError", <<"unsupported dtype">>)

TableCalls ==
    {NewCall("bp2np", [bitpix |-> b]) : b \in Bitpixes}
    \cup {NewCall("np2bp", [dtype |-> t]) : t \in DTypes}

CallBp2np ==
    /\ call.fn = "bp2np" /\ ~call.done
    /\ call' = [call EXCEPT !.done = TRUE, !.out = Bp2np(call.in.bitpix)]
    /\ UNCHANGED <<js9Globals, self, thread, cbthread, inflight, wire, hist, atstart, reply>>

CallNp2bp ==
    /\ call.fn = "np2bp" /\ ~call.done
    /\ call' = [call EXCEPT !.done = TRUE, !.out = Np2bp(call.in.dtype)]
    /\ UNCHANGED <<js9Globals, self, thread, cbthread, inflight, wire, hist, atstart, reply>>

(***************************************************************************)
(* SetNumpy.  An array is its element type and its shape; an element type  *)
(* given as override is a numpy type, as in SetNumpy(arr, dtype=np.float64)*)
(***************************************************************************)
NpTypeMap ==
    << <<"uint8", "uint8">>, <<"int8", "int16">>, <<"uint16", "uint16">>,
       <<"int16", "int16">>, <<"int32", "int32">>, <<"uint32", "int64">>,
       <<"int64", "int64">>, <<"float16", "float32">>, <<"float32", "float32">>,
       <<"float64", "float64">> >>

\* numpy.issubdtype of an array's element type and a concrete numpy type
IsSubDType(dtype, t) == dtype = t

Cvt2npIdentity(dtype) == dtype

\* a map with a row that sends uint64 as int64
Cvt2npUint64AsInt64(dtype) ==
    LET map == NpTypeMap \o << <<"uint64", "int64">> >>
        hits == {i \in 1..Len(map) : IsSubDType(dtype, map[i][1])}
    IN  IF hits = {} THEN dtype
        ELSE map[CHOOSE i \in hits : \A j \in hits : i <= j][2]

\* _cvt2np: the element type of the array returned
Cvt2np(dtype) ==
    LET hits == {i \in 1..Len(NpTypeMap) : IsSubDType(dtype, NpTypeMap[i][1])}
    IN  IF hits = {} THEN dtype
        ELSE NpTypeMap[CHOOSE i \in hits : \A j \in hits : i <= j][2]

FinalDTypeOverrideFirst(dtype, override) ==
    IF override # None THEN override ELSE Cvt2np(dtype)

\* if dtype and dtype != arr.dtype: arr.astype(dtype), else _cvt2np(arr)
FinalDType(dtype, override) ==
    IF override # None /\ override # dtype THEN override ELSE Cvt2np(dtype)

\* bytes per element of the types that have a bitpix code
ItemSize(dtype) ==
    CASE dtype = "uint8" -> 1
      [] dtype \in {"int16", "uint16"} -> 2
      [] dtype \in {"int32", "float32"} -> 4
      [] dtype \in {"int64", "float64"} -> 8

MaxDim == 2
Shapes == {sh \in SeqsUpTo(1..MaxDim, 3) : sh # <<>>}
FileNames == {None, "img.fits"}

\* some values of each element type, the extreme ones among them
PixelsOf(dtype) ==
    CASE dtype = "bool" -> <<0, 1, 1>>
      [] dtype = "uint8" -> <<0, 1, 255>>
      [] dtype \in {"uint16", "uint32", "uint64"} -> <<0, 1, 256>>
      [] dtype \in {"int8", "int16", "int32", "int64"} -> <<0 - 1, 0, 127>>
      [] OTHER -> <<0, 1, 2>>

Patterns == {0, 1}

\* the elements of an array of two dimensions, in row-major order
ValuesOf(dtype, shape, k) ==
    IF Len(shape) # 2 THEN <<>>
    ELSE [i \in 1..(shape[1] * shape[2]) |-> PixelsOf(dtype)[((i + k - 1) % 3) + 1]]

\* the calls; the retrieveAs setting of the process is 'base64', the path
\* by which the object sent would be read back
SetNumpyCalls ==
    {NewCall("SetNumpy", [isarray |-> TRUE, dtype |-> t, shape |-> sh,
                          values |-> ValuesOf(t, sh, k),
                          override |-> ov, filename |-> f, retrieveAs |-> "base64",
                          fits |-> 1, numpy |-> 1, nargs |-> 1]) :
        t \in DTypes, sh \in Shapes, ov \in {None} \cup DTypes, f \in FileNames,
        k \in Patterns}
    \cup {NewCall("SetNumpy", [isarray |-> FALSE, dtype |-> None, shape |-> <<>>,
                               values |-> <<>>,
                               override |-> None, filename |-> None,
                               retrieveAs |-> "base64",
                               fits |-> 1, numpy |-> 1, nargs |-> 1])}

(***************************************************************************)
(* base64: a text is a sequence of symbols 0..63 and the padding '=';      *)
(* bytes are 0..255.                                                       *)
(***************************************************************************)
PAD == 64

\* base64.b64encode
RECURSIVE B64Encode(_)
B64Encode(bs) ==
    IF bs = <<>> THEN <<>>
    ELSE IF Len(bs) = 1
    THEN <<bs[1] \div 4, (bs[1] % 4) * 16, PAD, PAD>>
    ELSE IF Len(bs) = 2
    THEN <<bs[1] \div 4, (bs[1] % 4) * 16 + bs[2] \div 16, (bs[2] % 16) * 4, PAD>>
    ELSE <<bs[1] \div 4, (bs[1] % 4) * 16 + bs[2] \div 16,
           (bs[2] % 16) * 4 + bs[3] \div 64, bs[3] % 64>>
         \o B64Encode(SubSeq(bs, 4, Len(bs)))

\* base64.decodebytes, of a text that b64encode made
RECURSIVE B64Decode(_)
B64Decode(text) ==
    IF Len(text) < 4 THEN <<>>
    ELSE (IF text[3] = PAD
          THEN <<text[1] * 4 + text[2] \div 16>>
          ELSE IF text[4] = PAD
          THEN <<text[1] * 4 + text[2] \div 16, (text[2] % 16) * 16 + text[3] \div 4>>
          ELSE <<text[1] * 4 + text[2] \div 16, (text[2] % 16) * 16 + text[3] \div 4,
                 (text[3] % 4) * 64 + text[4]>>)
         \o B64Decode(SubSeq(text, 5, Len(text)))

(***************************************************************************)
(* _im2np: convert a GetImageData object to numpy.  The object has width,  *)
(* height, bitpix and data; data is a list of pixel values, a text, or     *)
(* something else.                                                         *)
(***************************************************************************)
NdArray(dtype, rows) == [type |-> "ndarray", val |-> <<[dtype |-> dtype, rows |-> rows]>>]

\* seq[0:n]
Slice(seq, n) == SubSeq(seq, 1, IF n < Len(seq) THEN n ELSE Len(seq))

\* the value of a python int stored in an element of the type
Cast(v, dtype) ==
    CASE dtype = "uint8" -> v % 256
      [] dtype = "int8" -> ((v + 128) % 256) - 128
      [] dtype = "uint16" -> v % 65536
      [] dtype = "int16" -> ((v + 32768) % 65536) - 32768
      [] OTHER -> v

FloatTypes == {"float16", "float32", "float64"}
SignedTypes == {"int8", "int16", "int32", "int64"}

\* the IEEE 754 bytes, in little-endian order, of the floating-point values
\* that arrays here hold
FloatVals == {0 - 1, 0, 1, 2, 127, 255, 256}
Float32Bytes(v) ==
    CASE v = 0 -> <<0, 0, 0, 0>>
      [] v = 1 -> <<0, 0, 128, 63>>
      [] v = 2 -> <<0, 0, 0, 64>>
      [] v = 0 - 1 -> <<0, 0, 128, 191>>
      [] v = 127 -> <<0, 0, 254, 66>>
      [] v = 255 -> <<0, 0, 127, 67>>
      [] v = 256 -> <<0, 0, 128, 67>>
Float64Bytes(v) ==
    CASE v = 0 -> <<0, 0, 0, 0, 0, 0, 0, 0>>
      [] v = 1 -> <<0, 0, 0, 0, 0, 0, 240, 63>>
      [] v = 2 -> <<0, 0, 0, 0, 0, 0, 0, 64>>
      [] v = 0 - 1 -> <<0, 0, 0, 0, 0, 0, 240, 191>>
      [] v = 127 -> <<0, 0, 0, 0, 0, 192, 95, 64>>
      [] v = 255 -> <<0, 0, 0, 0, 0, 224, 111, 64>>
      [] v = 256 -> <<0, 0, 0, 0, 0, 0, 112, 64>>

\* the integer of some little-endian bytes, two's complement when signed
RECURSIVE OfBytes(_, _)
OfBytes(bs, signed) ==
    IF Len(bs) = 1 THEN (IF signed /\ bs[1] >= 128 THEN bs[1] - 256 ELSE bs[1])
    ELSE bs[1] + 256 * OfBytes(Tail(bs), signed)

\* numpy.frombuffer: the elements of a buffer in native (little-endian) order
FromBuffer(bytes, dtype) ==
    LET size == ItemSize(dtype)
        word(i) ==
            LET bs == SubSeq(bytes, size * (i - 1) + 1, size * i)
            IN  IF dtype = "float32"
                THEN CHOOSE v \in FloatVals : Float32Bytes(v) = bs
                ELSE IF dtype = "float64"
                THEN CHOOSE v \in FloatVals : Float64Bytes(v) = bs
                ELSE OfBytes(bs, dtype \in SignedTypes)
    IN  IF Len(bytes) % size # 0
        THEN Raised("ValueError", <<"buffer size must be a multiple of element size">>)
        ELSE Returned([type |-> "flat",
                       val |-> [i \in 1..(Len(bytes) \div size) |-> word(i)]])

\* a reshape that fills a short array with zeros
ReshapePadded(values, dtype, h, w) ==
    Returned(NdArray(dtype, [r \in 1..h |-> [c \in 1..w |->
                IF (r - 1) * w + c <= Len(values) THEN values[(r - 1) * w + c] ELSE 0]]))

\* .reshape((h, w)) of a one-dimensional array
Reshape(values, dtype, h, w) ==
    IF Len(values) # h * w
    THEN Raised("ValueError", <<"cannot reshape array">>)
    ELSE Returned(NdArray(dtype, [r \in 1..h |-> [c \in 1..w |->
                                     values[(r - 1) * w + c]]]))

\* the base64 symbols of the characters '0'..'9'
IsDigitSym(sym) == sym \in 52..61

\* numpy.array(s, dtype=dtype) of a text: a zero-dimensional array when the
\* text is a number, an error otherwise
ArrayOfText(text, dtype) ==
    IF Len(text) = 1 /\ IsDigitSym(text[1])
    THEN Returned([type |-> "flat", val |-> <<Cast(text[1] - 52, dtype)>>])
    ELSE Raised("ValueError", <<"invalid literal">>)

\* a decoder that takes its path from the form of the data
Im2npByForm(im) ==
    LET w == im.width
        h == im.height
        bp == im.bitpix
        dt == Bp2np(bp)
        dtype == dt.value.val[1]
        dlen == (h * w * (IF bp < 0 THEN 0 - bp ELSE bp)) \div 8
    IN  IF dt.kind = "raise" THEN dt
        ELSE IF im.data.form = "list"
        THEN CASE im.data.form = "list" ->
                    LET s == Slice(im.data.items, h * w)
                    IN  Reshape([i \in 1..Len(s) |-> Cast(s[i], dtype)], dtype, h, w)
               [] im.data.form = "str" ->
                    LET a == ArrayOfText(Slice(im.data.text, h * w), dtype)
                    IN  IF a.kind = "raise" THEN a
                        ELSE Reshape(a.value.val, dtype, h, w)
               [] OTHER -> Raised("TypeError", <<"unhashable type: slice">>)
        ELSE IF im.data.form = "str"
        THEN CASE im.data.form = "str" ->
                    LET s == Slice(B64Decode(im.data.text), dlen)
                        a == FromBuffer(s, dtype)
                    IN  IF a.kind = "raise" THEN a
                        ELSE Reshape(a.value.val, dtype, h, w)
               [] OTHER -> Raised("AttributeError", <<"has no attribute encode">>)
        ELSE Raised("ValueError", <<"unknown retrieveAs type">>)

Im2np(im) ==
    LET w == im.width
        h == im.height
        bp == im.bitpix
        dt == Bp2np(bp)
        dtype == dt.value.val[1]
        dlen == (h * w * (IF bp < 0 THEN 0 - bp ELSE bp)) \div 8
    IN  IF dt.kind = "raise" THEN dt
        ELSE IF js9Globals.retrieveAs = "array"
        THEN CASE im.data.form = "list" ->
                    LET s == Slice(im.data.items, h * w)
                    IN  Reshape([i \in 1..Len(s) |-> Cast(s[i], dtype)], dtype, h, w)
               [] im.data.form = "str" ->
                    LET a == ArrayOfText(Slice(im.data.text, h * w), dtype)
                    IN  IF a.kind = "raise" THEN a
                        ELSE Reshape(a.value.val, dtype, h, w)
               [] OTHER -> Raised("TypeError", <<"unhashable type: slice">>)
        ELSE IF js9Globals.retrieveAs = "base64"
        THEN CASE im.data.form = "str" ->
                    LET s == Slice(B64Decode(im.data.text), dlen)
                        a == FromBuffer(s, dtype)
                    IN  IF a.kind = "raise" THEN a
                        ELSE Reshape(a.value.val, dtype, h, w)
               [] OTHER -> Raised("AttributeError", <<"has no attribute encode">>)
        ELSE Raised("ValueError", <<"unknown retrieveAs type">>)

ImBitpixes == {8, 16, -16, 7}
MaxSide == 2
Pixels == {0, 1}
MaxData == 5
ByteVals == {0, 1, 255}
MaxBytes == 4
RetrieveAs == {"array", "base64", "typed"}

\* the data of the object: a list (items), the base64 text of some bytes
\* (text; raw are the bytes it was made from), or a mapping
ImData ==
    {[form |-> "list", items |-> d, text |-> <<>>, raw |-> <<>>] :
        d \in SeqsUpTo(Pixels, MaxData)}
    \cup {[form |-> "str", items |-> <<>>, text |-> B64Encode(b), raw |-> b] :
            b \in SeqsUpTo(ByteVals, MaxBytes)}
    \cup {[form |-> "dict", items |-> <<>>, text |-> <<>>, raw |-> <<>>]}

Im2npCalls ==
    {NewCall("im2np", [width |-> w, height |-> h, bitpix |-> bp, data |-> d,
                       retrieveAs |-> ra]) :
        w \in 1..MaxSide, h \in 1..MaxSide, bp \in ImBitpixes, d \in ImData,
        ra \in RetrieveAs}

CallIm2np ==
    /\ call.fn = "im2np" /\ ~call.done
    /\ call' = [call EXCEPT !.done = TRUE, !.out = Im2np(call.in)]
    /\ UNCHANGED <<js9Globals, self, thread, cbthread, inflight, wire, hist, atstart, reply>>

(***************************************************************************)
(* SetNumpy, continued: the object sent and the method.                    *)
(***************************************************************************)
\* arr.astype(dtype) of one element
AsType(v, dtype) == IF dtype \in FloatTypes THEN v ELSE Cast(v, dtype)

RECURSIVE IntBytes(_, _)
IntBytes(v, n) == IF n = 0 THEN <<>> ELSE <<v % 256>> \o IntBytes(v \div 256, n - 1)

\* the bytes of one element, most significant first
ElemBytesBigEndian(v, dtype) ==
    LET bs == IF dtype = "float32" THEN Float32Bytes(v)
              ELSE IF dtype = "float64" THEN Float64Bytes(v)
              ELSE IntBytes(v, ItemSize(dtype))
    IN  [i \in 1..Len(bs) |-> bs[Len(bs) + 1 - i]]

\* the bytes of one element in native (little-endian) order
ElemBytes(v, dtype) ==
    IF dtype = "float32" THEN Float32Bytes(v)
    ELSE IF dtype = "float64" THEN Float64Bytes(v)
    ELSE IntBytes(v, ItemSize(dtype))

\* narr.tostring(): the elements in row-major order
RECURSIVE Tostring(_, _)
Tostring(values, dtype) ==
    IF values = <<>> THEN <<>>
    ELSE ElemBytes(values[1], dtype) \o Tostring(Tail(values), dtype)

\* narr.min().tolist(), narr.max().tolist()
Min(values) == CHOOSE v \in {values[i] : i \in 1..Len(values)} :
                   \A i \in 1..Len(values) : v <= values[i]
Max(values) == CHOOSE v \in {values[i] : i \in 1..Len(values)} :
                   \A i \in 1..Len(values) : v >= values[i]

\* an object with the two dimensions the other way round
HduSwapped(dtype, shape, values, bp, filename) ==
    [naxis |-> 2, naxis1 |-> shape[1], naxis2 |-> shape[2], bitpix |-> bp,
     dmin |-> Min(values), dmax |-> Max(values),
     encoding |-> "base64", image |-> B64Encode(Tostring(values, dtype)),
     filename |-> filename]

\* the object given to Load (naxis2 is the first dimension, naxis1 the second)
Hdu(dtype, shape, values, bp, filename) ==
    [naxis |-> 2, naxis1 |-> shape[2], naxis2 |-> shape[1], bitpix |-> bp,
     dmin |-> Min(values), dmax |-> Max(values),
     encoding |-> "base64", image |-> B64Encode(Tostring(values, dtype)),
     filename |-> filename]

\* JS9.SetNumpy; urtn: the text the helper answers the Load with
SetNumpy(urtn) ==
    /\ call.fn = "SetNumpy" /\ ~call.done /\ js9Globals.numpy # 0
    /\ LET in == call.in
           narr == FinalDType(in.dtype, in.override)
           values == [i \in 1..Len(in.values) |-> AsType(in.values[i], narr)]
           bp == Np2bp(narr)
       IN  call' =
             IF ~in.isarray
             THEN [call EXCEPT !.done = TRUE,
                               !.out = Raised("ValueError", <<"requires numpy.ndarray">>)]
             ELSE IF bp.kind = "raise"
             THEN [call EXCEPT !.done = TRUE, !.narr = narr, !.out = bp]
             ELSE IF Len(in.shape) # 2
             THEN [call EXCEPT !.done = TRUE, !.narr = narr,
                               !.out = Raised("ValueError", <<"values to unpack">>)]
             ELSE [call EXCEPT !.done = TRUE, !.narr = narr,
                               !.sent = Append(@, [cmd |-> "Load",
                                                   args |-> <<Hdu(narr, in.shape, values,
                                                                  bp.value.val[1],
                                                                  in.filename)>>]),
                               !.out = HttpReply(urtn)]
    /\ UNCHANGED <<js9Globals, self, thread, cbthread, inflight, wire, hist, atstart, reply>>

(***************************************************************************)
(* SetFITS, and the methods the class has when a library was not found at  *)
(* import.  An HDU list is the shape of the data of its primary HDU; the   *)
(* file written from it is kept as that shape.                             *)
(***************************************************************************)
LibMethods == {"GetFITS", "SetFITS", "GetNumpy", "SetNumpy"}

\* js9Globals['fits'] (1: astropy, 2: pyfits, 0: neither) and
\* js9Globals['numpy'] after the imports; fits needs numpy
Capabilities == {<<0, 0>>, <<0, 1>>, <<1, 1>>, <<2, 1>>}

\* the key of js9Globals that decides which definition of the method the
\* class body takes
LibOf(fn) == IF fn \in {"GetFITS", "SetFITS"} THEN "fits" ELSE "numpy"

SetFITSCalls ==
    {NewCall("SetFITS", [ishdul |-> hd, shape |-> sh, name |-> f,
                         fits |-> ft, numpy |-> 1, nargs |-> 1]) :
        hd \in BOOLEAN, sh \in Shapes, f \in FileNames, ft \in {1, 2}}

\* base64.b64encode of the file hdul.writeto wrote
EncStr(shape) == [type |-> "fits", encoding |-> "base64", shape |-> shape]

\* a SetFITS without the test of its argument's type
SetFITSUntested(urtn) ==
    /\ call.fn = "SetFITS" /\ ~call.done /\ js9Globals.fits # 0
    /\ call' = [call EXCEPT !.done = TRUE,
                            !.sent = Append(@, [cmd |-> "Load",
                                                args |-> <<EncStr(call.in.shape),
                                                           call.in.name>>]),
                            !.out = HttpReply(urtn)]
    /\ UNCHANGED <<js9Globals, self, thread, cbthread, inflight, wire, hist, atstart, reply>>

\* JS9.SetFITS; urtn: the text the helper answers the Load with
SetFITS(urtn) ==
    /\ call.fn = "SetFITS" /\ ~call.done /\ js9Globals.fits # 0
    /\ call' =
         IF ~call.in.ishdul
         THEN [call EXCEPT !.done = TRUE,
                           !.out = IF js9Globals.fits = 1
                                   THEN Raised("ValueError", <<"requires astropy.HDUList">>)
                                   ELSE Raised("ValueError", <<"requires pyfits.HDUList">>)]
         ELSE [call EXCEPT !.done = TRUE,
                           !.sent = Append(@, [cmd |-> "Load",
                                               args |-> <<EncStr(call.in.shape),
                                                          call.in.name>>]),
                           !.out = HttpReply(urtn)]
    /\ UNCHANGED <<js9Globals, self, thread, cbthread, inflight, wire, hist, atstart, reply>>

\* the calls of the four methods in a process where the library of the
\* method was not found: nargs arguments are given after the object
NotDefinedCalls ==
    {c \in {NewCall(fn, [ishdul |-> FALSE, isarray |-> FALSE, retrieveAs |-> "array",
                         fits |-> cap[1], numpy |-> cap[2], nargs |-> n]) :
                fn \in LibMethods, cap \in Capabilities, n \in 0..MaxArgs} :
        c.in[LibOf(c.fn)] = 0}

\* @staticmethod def GetFITS(): ... def SetFITS(): ... def GetNumpy(): ...
\* def SetNumpy(): the call binds its arguments to no parameters, then the
\* body raises
NotDefined ==
    /\ call.fn \in LibMethods /\ ~call.done /\ js9Globals[LibOf(call.fn)] = 0
    /\ call' = [call EXCEPT !.done = TRUE,
                            !.out = IF call.in.nargs > 0
                                    THEN Raised("TypeError",
                                                <<call.fn, "takes 0 positional arguments">>)
                                    ELSE Raised("ValueError", <<call.fn, "not defined">>)]
    /\ UNCHANGED <<js9Globals, self, thread, cbthread, inflight, wire, hist, atstart, reply>>

CallInputs ==
    MethodCalls \cup HostCalls \cup TableCalls \cup SetNumpyCalls \cup Im2npCalls
    \cup SetFITSCalls \cup NotDefinedCalls

\* the call, in a process without socketio whose retrieveAs setting is the
\* one at import or, for the decoder, any that has been assigned since, and
\* in which the libraries were found at import or, for the methods that need
\* them, were not
InitCall ==
    /\ call \in CallInputs
    /\ js9Globals = [transport |-> "html", wait |-> HtmlWait,
                     retrieveAs |-> IF call.fn \in {"im2np", "SetNumpy"}
                                    THEN call.in.retrieveAs
                                    ELSE "array",
                     fits |-> IF call.fn \in LibMethods THEN call.in.fits ELSE 1,
                     numpy |-> IF call.fn \in LibMethods THEN call.in.numpy ELSE 1]
    /\ InitClients /\ atstart = js9Globals.transport
    /\ reply = NoReply

NextCall ==
    \/ Method
    \/ HostArg
    \/ CallBp2np
    \/ CallNp2bp
    \/ \E urtn \in CoreTexts : SetNumpy(urtn)
    \/ CallIm2np
    \/ \E urtn \in CoreTexts : SetFITS(urtn)
    \/ NotDefined

SpecCall == InitCall /\ [][NextCall]_vars

(***************************************************************************)
(* SpecGet: one GetNumpy or GetFITS call on a constructed client, through  *)
(* send on either transport, to its end.                                   *)
(***************************************************************************)
\* the image data object the helper answers with
Image ==
    [width |-> 2, height |-> 1, bitpix |-> 16,
     data |-> [form |-> "list", items |-> <<0, 1>>, text |-> <<>>, raw |-> <<>>]]

\* what the helper answers a GetImageData with: as text, and as the value
\* the socketio callback gets
GetTexts == {<<>>, <<SP>>, <<CH>>, <<ERR, CH>>, <<IMJSON>>}
GetValues == {StrVal(<<>>), StrVal(<<CH>>), StrVal(<<ERR, CH>>), DictVal(<<IMJSON>>)}

TooLarge == Raised("ValueError", <<"GetImageData failed: image too large">>)

\* fits.HDUList([fits.PrimaryHDU(arr)])
HduList(arr) == [type |-> "hdulist", val |-> <<arr>>]

\* a method without the test for the empty payload
AfterGetImageDataNoTest(fn, im) ==
    IF im.type # "dict"
    THEN Raised("TypeError", <<"object is not subscriptable">>)
    ELSE LET arr == Im2np(Image)
         IN  IF arr.kind = "raise" \/ fn = "GetNumpy" THEN arr
             ELSE Returned(HduList(arr.value))

\* a method that makes an array without pixels of the empty placeholder
AfterGetImageDataEmptyArray(fn, im) ==
    IF im = StrVal(<<>>)
    THEN (IF fn = "GetNumpy" THEN Returned(NdArray("uint8", <<>>))
          ELSE Returned(HduList(NdArray("uint8", <<>>))))
    ELSE IF im.type # "dict" THEN Raised("TypeError", <<"object is not subscriptable">>)
    ELSE LET arr == Im2np(Image)
         IN  IF arr.kind = "raise" \/ fn = "GetNumpy" THEN arr
             ELSE Returned(HduList(arr.value))

\* GetNumpy and GetFITS from the return of GetImageData on
AfterGetImageData(fn, im) ==
    IF im = StrVal(<<>>) THEN TooLarge
    ELSE IF im.type # "dict"
    THEN Raised("TypeError", <<"object is not subscriptable">>)
    ELSE LET arr == Im2np(Image)
         IN  IF arr.kind = "raise" \/ fn = "GetNumpy" THEN arr
             ELSE Returned(HduList(arr.value))

\* im = self.GetImageData(js9Globals['retrieveAs'])
GetBegin(c, urtn) ==
    /\ call.fn \in {"GetNumpy", "GetFITS"} /\ ~call.done /\ call.sent = <<>>
    /\ thread[c].pc = "ready"
    /\ LET th == [thread[c] EXCEPT !.ctx = "get", !.calls = @ + 1]
           r == SendBegin(self[c], th, NoWire, hist[c],
                          [NoObj EXCEPT !.cmd = "GetImageData"], "msg", urtn)
       IN  /\ self' = [self EXCEPT ![c] = r.self]
           /\ thread' = [thread EXCEPT ![c] = r.thread]
           /\ wire' = [wire EXCEPT ![c] = r.wire]
           /\ hist' = [hist EXCEPT ![c] = r.hist]
    /\ call' = [call EXCEPT !.sent = Append(@, [cmd |-> "GetImageData",
                                                 args |-> <<js9Globals.retrieveAs>>])]
    /\ UNCHANGED <<js9Globals, cbthread, inflight, atstart, reply>>

\* send has ended: its exception passes through, its value is examined
GetEnd(c) ==
    /\ call.fn \in {"GetNumpy", "GetFITS"} /\ ~call.done
    /\ thread[c].pc = "sent" /\ thread[c].ctx = "get"
    /\ LET out == thread[c].outcome
       IN  call' = [call EXCEPT !.done = TRUE,
                                !.in = [@ EXCEPT !.im = out, !.woke = thread[c].woke],
                                !.out = IF out.kind = "raise" THEN out
                                        ELSE AfterGetImageData(call.fn, out.value)]
    /\ thread' = [thread EXCEPT ![c] =
                    [@ EXCEPT !.pc = "ready", !.ctx = "", !.outcome = NoOutcome,
                              !.via = "", !.obj = NoObj, !.msg = "", !.woke = ""]]
    /\ UNCHANGED <<js9Globals, self, cbthread, inflight, wire, hist, atstart, reply>>

\* a client constructed with the defaults and maxtries=0, and nothing else
ConstructedDefault ==
    /\ LET sock == js9Globals.transport = "socketio"
       IN  /\ self = [c \in Clients |->
                        IF c = Driver
                        THEN [id |-> "JS9", host |-> "h1", multi |-> PyFalse,
                              pageid |-> None, sockioResult |-> NoValue,
                              sockio |-> IF sock
                                         THEN [state |-> "connected", host |-> "h1"]
                                         ELSE [state |-> "none", host |-> None],
                              block_cb |-> 0, lock |-> "free"]
                        ELSE [id |-> None, host |-> None, multi |-> PyFalse,
                              pageid |-> None, sockioResult |-> NoValue,
                              sockio |-> [state |-> "none", host |-> None],
                              block_cb |-> 0, lock |-> "free"]]
           /\ thread = [c \in Clients |->
                          [pc |-> IF c = Driver THEN "ready" ELSE "new", ctx |-> "",
                           via |-> "", obj |-> NoObj, msg |-> "", tries |-> 0,
                           maxtries |-> 0, item |-> "", value |-> None, timeout |-> 0,
                           woke |-> "", calls |-> 0, outcome |-> NoOutcome]]
           /\ hist = [c \in Clients |->
                        IF c = Driver
                        THEN [ctorhost |-> "h1", opened |-> sock,
                              transport |-> js9Globals.transport, instfail |-> FALSE,
                              ctor |-> "returned", resultOf |-> 0,
                              emptyAtTimeout |-> FALSE]
                        ELSE [ctorhost |-> None, opened |-> FALSE, transport |-> "",
                              instfail |-> FALSE, ctor |-> "", resultOf |-> 0,
                              emptyAtTimeout |-> FALSE]]
    /\ cbthread = [c \in Clients |-> [pc |-> "idle", cond |-> 0]]
    /\ inflight = [c \in Clients |-> {}]
    /\ wire = [c \in Clients |-> NoWire]

InitGet ==
    /\ InitGlobals
    /\ atstart = js9Globals.transport
    /\ reply = NoReply
    /\ call \in {NewCall(fn, [im |-> NoOutcome, woke |-> ""]) :
                   fn \in {"GetNumpy", "GetFITS"}}
    /\ ConstructedDefault

NextGet ==
    \/ \E urtn \in GetTexts : GetBegin(Driver, urtn)
    \/ SockEmit(Driver)
    \/ SockWait(Driver)
    \/ Timeout(Driver)
    \/ SockResume(Driver)
    \/ \E k \in inflight[Driver], v \in GetValues : CbStore(Driver, k, v)
    \/ CbAcquire(Driver)
    \/ CbNotify(Driver)
    \/ GetEnd(Driver)

SpecGet == InitGet /\ [][NextGet]_vars

(***************************************************************************)
(* SpecAssign: an item assignment to 'id' or 'host' on a constructed       *)
(* client and one operation after it, through send on either transport.    *)
(***************************************************************************)
AssignCalls ==
    UNION {{NewCall("setitem", [item |-> i, value |-> v, probed |-> FALSE,
                                failed |-> FALSE]) : v \in ItemValues(i)} :
              i \in {"id", "host"}}

\* js9[item] = value: self.__dict__[itemname] = value; self._alive()
AssignBegin(c, urtn) ==
    /\ call.fn = "setitem" /\ ~call.in.probed /\ call.sent = <<>>
    /\ thread[c].pc = "ready"
    /\ LET me == [self[c] EXCEPT ![call.in.item] = call.in.value]
           th == [thread[c] EXCEPT !.ctx = "setitem", !.item = call.in.item,
                                   !.value = call.in.value, !.calls = @ + 1]
           r == SendBegin(me, th, NoWire, hist[c], NoObj, "alive", urtn)
       IN  /\ self' = [self EXCEPT ![c] = r.self]
           /\ thread' = [thread EXCEPT ![c] = r.thread]
           /\ wire' = [wire EXCEPT ![c] = r.wire]
           /\ hist' = [hist EXCEPT ![c] = r.hist]
    /\ call' = [call EXCEPT !.sent = Append(@, [cmd |-> None, args |-> <<>>])]
    /\ UNCHANGED <<js9Globals, cbthread, inflight, atstart, reply>>

\* the probe's send has ended, and the assignment with it: what send raised
\* passes to the caller
AssignEnd(c) ==
    /\ call.fn = "setitem" /\ ~call.in.probed
    /\ thread[c].pc = "sent" /\ thread[c].ctx = "setitem"
    /\ call' = [call EXCEPT !.in = [@ EXCEPT !.probed = TRUE,
                                            !.failed = thread[c].outcome.kind = "raise"],
                            !.out = thread[c].outcome]
    /\ thread' = [thread EXCEPT ![c] =
                    [@ EXCEPT !.pc = "ready", !.ctx = "", !.outcome = NoOutcome,
                              !.via = "", !.obj = NoObj, !.msg = "", !.woke = "",
                              !.item = "", !.value = None]]
    /\ wire' = [wire EXCEPT ![c] = NoWire]
    /\ UNCHANGED <<js9Globals, self, cbthread, inflight, hist, atstart, reply>>

\* the operation called next: self.send({'cmd': cmd, 'args': args})
LaterOp(c, cmd, urtn) ==
    /\ call.fn = "setitem" /\ call.in.probed /\ ~call.done /\ Len(call.sent) = 1
    /\ thread[c].pc = "ready"
    /\ LET th == [thread[c] EXCEPT !.ctx = "op", !.calls = @ + 1]
           r == SendBegin(self[c], th, NoWire, hist[c], [NoObj EXCEPT !.cmd = cmd],
                          "msg", urtn)
       IN  /\ self' = [self EXCEPT ![c] = r.self]
           /\ thread' = [thread EXCEPT ![c] = r.thread]
           /\ wire' = [wire EXCEPT ![c] = r.wire]
           /\ hist' = [hist EXCEPT ![c] = r.hist]
    /\ call' = [call EXCEPT !.sent = Append(@, [cmd |-> cmd, args |-> <<>>])]
    /\ UNCHANGED <<js9Globals, cbthread, inflight, atstart, reply>>

LaterOpEnd(c) ==
    /\ call.fn = "setitem" /\ ~call.done
    /\ thread[c].pc = "sent" /\ thread[c].ctx = "op"
    /\ call' = [call EXCEPT !.done = TRUE]
    /\ thread' = [thread EXCEPT ![c] =
                    [@ EXCEPT !.pc = "ready", !.ctx = "", !.outcome = NoOutcome,
                              !.via = "", !.obj = NoObj, !.msg = "", !.woke = ""]]
    /\ UNCHANGED <<js9Globals, self, cbthread, inflight, wire, hist, atstart, reply>>

InitAssign ==
    /\ InitGlobals
    /\ atstart = js9Globals.transport
    /\ reply = NoReply
    /\ call \in AssignCalls
    /\ ConstructedDefault

NextAssign ==
    \/ \E urtn \in CoreTexts : AssignBegin(Driver, urtn)
    \/ AssignEnd(Driver)
    \/ \E cmd \in Cmds, urtn \in CoreTexts : LaterOp(Driver, cmd, urtn)
    \/ LaterOpEnd(Driver)
    \/ SockEmit(Driver)
    \/ SockWait(Driver)
    \/ Timeout(Driver)
    \/ SockResume(Driver)
    \/ \E k \in inflight[Driver], v \in CoreValues : CbStore(Driver, k, v)
    \/ CbAcquire(Driver)
    \/ CbNotify(Driver)

SpecAssign == InitAssign /\ [][NextAssign]_vars

(***************************************************************************)
(* The claims.                                                             *)
(***************************************************************************)
HasMarker(v) == v.type = "str" /\ Contains(v.val, ERR)

\* C1: on both transports, a reply text that contains "ERROR:" anywhere (also
\* inside a text that is valid JSON) makes send raise ValueError with the
\* whole text; send never returns such a text.
C1_MarkerRaises ==
    (reply.outcome # NoOutcome /\ HasMarker(reply.read))
        => reply.outcome = Raised("ValueError", reply.read.val)

C1_Witness ==
    /\ reply.transport = "socketio"
    /\ reply.read = StrVal(<<QUOTE, ERR, QUOTE>>)
    /\ reply.outcome.kind = "raise"

\* C2: on both transports, a reply text without the marker is returned
\* JSON-decoded when it parses as JSON and stripped otherwise.
C2_UniformDecoding ==
    (reply.outcome # NoOutcome /\ reply.read.type = "str" /\ ~HasMarker(reply.read))
        => reply.outcome = IF IsJson(reply.read.val)
                           THEN Returned(JsonLoads(reply.read.val))
                           ELSE Returned(StrVal(Strip(reply.read.val)))

\* C3: what a socket send returns is the empty placeholder or the reply to
\* the message this very call emitted, never the reply to an earlier message.
C3_OwnReplyOnly ==
    \A c \in Clients :
        (thread[c].pc = "sent" /\ thread[c].via = "socketio"
            /\ thread[c].outcome.kind = "return")
        => hist[c].resultOf \in {0, self[c].block_cb}

\* C4 as claimed: when the wait timed out and no callback had stored a value
\* by then, send returns the empty string.
C4_EmptyAtTimeoutReturned ==
    \A c \in Clients :
        (thread[c].pc = "sent" /\ thread[c].via = "socketio"
            /\ thread[c].woke = "timeout" /\ hist[c].emptyAtTimeout)
        => thread[c].outcome = Returned(StrVal(<<>>))

\* C4 as amended: when no callback has stored a value by the time send reads
\* the placeholder, send returns the empty string and raises nothing; and the
\* wait is given js9Globals['wait'] (10 seconds) as its timeout.
C4_EmptyPlaceholderReturned ==
    \A c \in Clients :
        /\ (thread[c].pc = "sent" /\ thread[c].via = "socketio" /\ hist[c].resultOf = 0)
            => thread[c].outcome = Returned(StrVal(<<>>))
        /\ thread[c].pc = "waiting" => thread[c].timeout = SocketioWait

C4_Witness ==
    \E c \in Clients :
        /\ thread[c].pc = "sent" /\ thread[c].via = "socketio"
        /\ thread[c].woke = "timeout" /\ hist[c].resultOf = 0
        /\ thread[c].outcome = Returned(StrVal(<<>>))

\* C5: the constructor of a client whose host is unreachable does not raise,
\* and the first operation call on that client raises the connection error.
C5_UnreachableHost ==
    \A c \in Clients :
        hist[c].ctorhost \in Down
        => /\ hist[c].ctor # "raised"
           /\ (thread[c].pc = "sent" /\ thread[c].ctx = "op" /\ thread[c].calls = 1)
                => thread[c].outcome = CannotConnect

C5_Witness ==
    \E c \in Clients :
        /\ hist[c].ctorhost \in Down /\ atstart = "socketio"
        /\ hist[c].ctor = "returned"
        /\ thread[c].pc = "sent" /\ thread[c].ctx = "op" /\ thread[c].calls = 1
        /\ thread[c].outcome = CannotConnect

C7_AssignmentProbes ==
    \A c \in Clients :
        (thread[c].pc = "sent" /\ thread[c].ctx = "setitem")
        => IF thread[c].item \in {"id", "host"}
           THEN /\ wire[c].n = 1
                /\ wire[c].obj.cmd = None
                /\ thread[c].item = "id" => wire[c].obj.id = thread[c].value
                /\ thread[c].item = "host" => wire[c].dest = thread[c].value
           ELSE wire[c].n = 0

\* C8: the transport through which a constructed client sends is the one in
\* effect when its constructor ran: nothing changes the global afterwards.
C8_TransportStable ==
    \A c \in Clients :
        hist[c].ctor = "returned" => js9Globals.transport = hist[c].transport

\* C9: after close() on a client whose constructor connected a socket, that
\* socket has been told to disconnect.
C9_CloseDisconnects ==
    \A c \in Clients :
        (thread[c].pc = "closed" /\ hist[c].opened)
        => self[c].sockio.state = "disconnected"

\* C10: every transmitted object carries the client's current id and multi
\* flag, and a pageid exactly when the client's pageid is set; so after an
\* assignment to 'id' the commands carry the new id.
C10_ObjectCarriesIdentity ==
    \A c \in Clients :
        wire[c].n > 0
        => /\ wire[c].obj.id = self[c].id
           /\ wire[c].obj.multi = self[c].multi
           /\ wire[c].obj.haspageid <=> self[c].pageid # None
           /\ wire[c].obj.haspageid => wire[c].obj.pageid = self[c].pageid
           /\ (thread[c].ctx = "setitem" /\ thread[c].item = "id")
                => self[c].id = thread[c].value

\* an operation sent after the id given to the constructor was replaced
C10_Witness ==
    \E c \in Clients :
        /\ thread[c].pc = "sent" /\ thread[c].ctx = "op" /\ thread[c].calls = 2
        /\ hist[c].ctorhost = "h1"
        /\ wire[c].n = 1 /\ wire[c].obj.id = "JS9b" /\ wire[c].obj.cmd = "SetColormap"
        /\ ~wire[c].obj.haspageid

\* C11: a pass-through method called with positional arguments performs
\* exactly one send, of an object whose cmd is the method's own name and
\* whose args are the call's arguments in order.
C11_PassThrough ==
    (call.fn = "method" /\ call.done)
        => /\ Len(call.sent) = 1
           /\ call.sent[1].cmd = call.in.method
           /\ call.sent[1].args = call.in.args

\* C12: outside the constructor's probe loop a send call transmits its
\* object exactly once (one POST or one emit); when the host cannot be
\* reached the call ends with the connection error after that one attempt.
C12_SentOnce ==
    \A c \in Clients :
        thread[c].ctx \in {"op", "setitem"}
        => /\ wire[c].n <= 1
           /\ (thread[c].pc = "sent"
                 /\ (thread[c].ctx = "op" \/ thread[c].item \in {"id", "host"}))
                => wire[c].n = 1
           /\ (thread[c].pc = "sent" /\ wire[c].via = "html" /\ wire[c].dest \in Down)
                => thread[c].outcome = CannotConnect

C12_Witness ==
    \E c \in Clients :
        /\ thread[c].pc = "sent" /\ thread[c].ctx = "op"
        /\ wire[c].via = "html" /\ wire[c].dest \in Down /\ wire[c].n = 1
        /\ thread[c].outcome = CannotConnect

IsPrefix(p, text) == Len(p) <= Len(text) /\ SubSeq(text, 1, Len(p)) = p
IsSuffix(p, text) ==
    Len(p) <= Len(text) /\ SubSeq(text, Len(text) - Len(p) + 1, Len(text)) = p

\* C13: the stored host ends with the default port ':2718' exactly when the
\* host given names no port; a host given with a port keeps it and gets no
\* second one.
C13_DefaultPort ==
    (call.fn = "host" /\ call.done)
        => /\ IsSuffix(DefaultPort, call.out.value.val) <=> call.in.port = <<>>
           /\ call.in.port # <<>>
                => call.out.value.val \in {call.in.host, HttpPrefix \o call.in.host}

\* C14: the stored host of a host given without a scheme (also one with a
\* '/' path component) starts with 'http://'; a host given with a scheme
\* starts with that scheme only.
C14_HttpPrefix ==
    (call.fn = "host" /\ call.done)
        => IsPrefix((IF call.in.scheme = <<>> THEN HttpPrefix ELSE call.in.scheme)
                        \o call.in.name,
                    call.out.value.val)

\* the seven pairs the specification lists
BitpixTable ==
    {<<8, "uint8">>, <<16, "int16">>, <<32, "int32">>, <<64, "int64">>,
     <<-16, "uint16">>, <<-32, "float32">>, <<-64, "float64">>}

\* C15: _bp2np maps exactly the seven listed bitpix values to their types
\* and fails for every other value; _np2bp is the exact inverse on those
\* seven types and fails for every other type.
C15_BitpixTables ==
    /\ (call.fn = "bp2np" /\ call.done)
        => IF \E p \in BitpixTable : p[1] = call.in.bitpix
           THEN \E p \in BitpixTable :
                   p[1] = call.in.bitpix /\ call.out = Returned(DTypeVal(p[2]))
           ELSE call.out.kind = "raise"
    /\ (call.fn = "np2bp" /\ call.done)
        => IF \E p \in BitpixTable : p[2] = call.in.dtype
           THEN \E p \in BitpixTable :
                   p[2] = call.in.dtype /\ call.out = Returned(NumVal(p[1]))
           ELSE call.out.kind = "raise"

C15_Witness ==
    /\ call.fn = "np2bp" /\ call.done /\ call.in.dtype = "uint16"
    /\ call.out = Returned(NumVal(-16))

\* the widening rule as the specification states it
Widened(dtype) ==
    CASE dtype = "int8" -> "int16"
      [] dtype = "uint32" -> "int64"
      [] dtype = "float16" -> "float32"
      [] OTHER -> dtype

HasCode(dtype) == \E p \in BitpixTable : p[2] = dtype
CodeOf(dtype) == (CHOOSE p \in BitpixTable : p[2] = dtype)[1]

SetNumpyDone == call.fn = "SetNumpy" /\ call.done /\ call.in.isarray

\* C16: SetNumpy without a dtype override sends int8 arrays as int16, uint32
\* arrays as int64, float16 arrays as float32, and arrays of the seven types
\* that have a bitpix code with their type unchanged.
C16_Widening ==
    (SetNumpyDone /\ call.in.override = None /\ Len(call.in.shape) = 2
        /\ call.in.dtype \in {"int8", "uint32", "float16"}
                                \cup {t \in DTypes : HasCode(t)})
        => /\ call.narr = Widened(call.in.dtype)
           /\ Len(call.sent) = 1
           /\ call.sent[1].cmd = "Load"
           /\ call.sent[1].args[1].bitpix = CodeOf(Widened(call.in.dtype))

C16_Witness ==
    /\ SetNumpyDone /\ call.in.override = None /\ call.in.dtype = "int8"
    /\ call.narr = "int16"
    /\ Len(call.sent) = 1 /\ call.sent[1].args[1].bitpix = 16

\* C17: SetNumpy on an array whose final element type has no bitpix code
\* fails and has sent nothing; an uint64 array without override is such an
\* array: it is not converted to another type.
C17_UnsupportedTypeFails ==
    /\ (SetNumpyDone /\ ~HasCode(call.narr))
        => (call.out.kind = "raise" /\ call.sent = <<>>)
    /\ (SetNumpyDone /\ call.in.dtype = "uint64" /\ call.in.override = None)
        => (call.narr = "uint64" /\ call.out.kind = "raise" /\ call.sent = <<>>)

C17_Witness ==
    /\ SetNumpyDone /\ call.in.dtype = "uint64" /\ call.in.override = None
    /\ Len(call.in.shape) = 2
    /\ call.out = Raised("ValueError", <<"unsupported dtype">>)
    /\ call.sent = <<>>

\* C18: the output element type of SetNumpy is the override when one is
\* given and differs from the array's type, and the widened type otherwise:
\* an override equal to the array's type is still widened, an override that
\* differs is used without widening.
C18_OverrideOrWiden ==
    SetNumpyDone
        => call.narr = IF call.in.override # None /\ call.in.override # call.in.dtype
                       THEN call.in.override
                       ELSE Widened(call.in.dtype)

C18_Witness ==
    /\ SetNumpyDone /\ call.in.dtype = "int8" /\ call.in.override = "int8"
    /\ call.narr = "int16"
    /\ Len(call.sent) = 1 /\ call.sent[1].args[1].bitpix = 16

Im2npDone == call.fn = "im2np" /\ call.done /\ Bp2np(call.in.bitpix).kind = "return"

\* the result is an array of h rows of w columns whose element (r, c) is
\* flat[r*w + c] (rows and columns counted from 0)
IsRowMajor(out, flat, h, w) ==
    /\ out.kind = "return"
    /\ out.value.type = "ndarray"
    /\ LET rows == out.value.val[1].rows
       IN  /\ DOMAIN rows = 1..h
           /\ \A r \in 1..h :
                 /\ DOMAIN rows[r] = 1..w
                 /\ \A c \in 1..w : rows[r][c] = flat[(r - 1) * w + c]

\* C19: decoding a flat pixel sequence of fewer than width*height elements
\* fails; with at least width*height elements the result has height rows of
\* width columns and its element (r, c) is data[r*width + c].
C19_FlatDecode ==
    (Im2npDone /\ js9Globals.retrieveAs = "array" /\ call.in.data.form = "list")
        => IF Len(call.in.data.items) < call.in.width * call.in.height
           THEN call.out.kind = "raise"
           ELSE IsRowMajor(call.out, call.in.data.items, call.in.height, call.in.width)

C19_Witness ==
    /\ Im2npDone /\ js9Globals.retrieveAs = "array"
    /\ call.in.width = 2 /\ call.in.height = 2 /\ call.in.bitpix = 16
    /\ call.in.data.items = <<0, 1, 1, 0, 1>>
    /\ call.out = Returned(NdArray("int16", << <<0, 1>>, <<1, 0>> >>))

ElementAt(bytes, dtype, i) ==
    IF ItemSize(dtype) = 1 THEN bytes[i]
    ELSE LET v == bytes[2 * i - 1] + 256 * bytes[2 * i]
         IN  IF dtype = "int16" /\ v >= 32768 THEN v - 65536 ELSE v

GetDone == call.fn \in {"GetNumpy", "GetFITS"} /\ call.done

\* C21: when GetImageData returns the empty payload, GetNumpy and GetFITS
\* raise the too-large error: there is no array and no decoder error; and a
\* call issues exactly one GetImageData command.
C21_EmptyPayloadTooLarge ==
    /\ (GetDone /\ call.in.im = Returned(StrVal(<<>>))) => call.out = TooLarge
    /\ GetDone => (Len(call.sent) = 1 /\ call.sent[1].cmd = "GetImageData")
    /\ call.fn \in {"GetNumpy", "GetFITS"} => wire[Driver].n <= 1

C21_Witness ==
    /\ GetDone /\ call.fn = "GetFITS" /\ js9Globals.transport = "html"
    /\ call.in.im = Returned(StrVal(<<>>))
    /\ call.out = TooLarge

\* the object SetNumpy gave to Load, and that object as GetImageData would
\* deliver it with retrieveAs 'base64'
SentHdu == call.sent[1].args[1]
SentAsImage ==
    [width |-> SentHdu.naxis1, height |-> SentHdu.naxis2, bitpix |-> SentHdu.bitpix,
     data |-> [form |-> "str", items |-> <<>>, text |-> SentHdu.image, raw |-> <<>>]]

\* the array SetNumpy was given, in the element type it is sent in: the same
\* values when the type is kept or widened, the converted ones under an override
ArraySent ==
    LET in == call.in
        h == in.shape[1]
        w == in.shape[2]
        v(i) == IF in.override \in {None, in.dtype} THEN in.values[i]
                ELSE AsType(in.values[i], call.narr)
    IN  NdArray(call.narr, [r \in 1..h |-> [c \in 1..w |-> v((r - 1) * w + c)]])

\* C22: the object SetNumpy sends reads back to the array: base64-decoding
\* its image, taking the bytes as elements of the type its bitpix declares and
\* reshaping to naxis2 by naxis1 gives the (possibly widened) pixel values, and
\* so does the base64 path of the decoder _im2np.
C22_PayloadRoundTrip ==
    (SetNumpyDone /\ call.sent # <<>>) =>
        LET dt == Bp2np(SentHdu.bitpix)
            buf == FromBuffer(B64Decode(SentHdu.image), dt.value.val[1])
        IN  /\ dt.kind = "return" /\ dt.value.val[1] = call.narr
            /\ buf.kind = "return"
            /\ Reshape(buf.value.val, call.narr, SentHdu.naxis2, SentHdu.naxis1)
                 = Returned(ArraySent)
            /\ Im2np(SentAsImage) = Returned(ArraySent)

C22_Witness ==
    /\ SetNumpyDone /\ call.sent # <<>>
    /\ call.in.dtype = "int8" /\ call.in.override = None
    /\ call.in.shape = <<2, 1>> /\ call.in.values = <<0 - 1, 0>>
    /\ call.narr = "int16"
    /\ SentHdu.image = B64Encode(<<255, 255, 0, 0>>)
    /\ Im2np(SentAsImage) = Returned(NdArray("int16", << <<0 - 1>>, <<0>> >>))

\* C23: the object SetNumpy sends has naxis 2, naxis1 the width (second
\* dimension), naxis2 the height (first dimension), encoding 'base64' and an
\* image of exactly width * height * |bitpix| / 8 bytes; for an int8 array
\* the bitpix is 16 and the image has 2 * width * height bytes.
C23_PayloadDimensions ==
    (SetNumpyDone /\ call.sent # <<>>) =>
        LET h == call.in.shape[1]
            w == call.in.shape[2]
            bp == SentHdu.bitpix
            n == Len(B64Decode(SentHdu.image))
        IN  /\ Len(call.sent) = 1 /\ call.sent[1].cmd = "Load"
            /\ SentHdu.naxis = 2 /\ SentHdu.naxis1 = w /\ SentHdu.naxis2 = h
            /\ SentHdu.encoding = "base64"
            /\ n = (w * h * (IF bp < 0 THEN 0 - bp ELSE bp)) \div 8
            /\ (call.in.dtype = "int8" /\ call.in.override = None)
                    => (bp = 16 /\ n = 2 * w * h)

C23_Witness ==
    /\ SetNumpyDone /\ call.sent # <<>>
    /\ call.in.dtype = "int8" /\ call.in.override = None
    /\ call.in.shape = <<1, 2>>
    /\ SentHdu.naxis1 = 2 /\ SentHdu.naxis2 = 1 /\ SentHdu.bitpix = 16
    /\ Len(B64Decode(SentHdu.image)) = 4

\* the arguments the method is documented to take: none for the two that
\* retrieve, at least the object to send for the two that send
NormalArgs(fn, n) == IF fn \in {"GetFITS", "GetNumpy"} THEN n = 0 ELSE n >= 1

\* C24: in a process where the library of the method was not found, GetFITS,
\* SetFITS, GetNumpy and SetNumpy called with their normal arguments raise the
\* error that says the method is not defined, and send nothing.
C24_CapabilityError ==
    (/\ call.fn \in LibMethods /\ call.done
     /\ js9Globals[LibOf(call.fn)] = 0
     /\ NormalArgs(call.fn, call.in.nargs))
        => (/\ call.out = Raised("ValueError", <<call.fn, "not defined">>)
            /\ call.sent = <<>>)

\* C25: SetFITS of an HDU list whose image is not of two dimensions, and
\* SetNumpy of an array that is not of two dimensions, raise and send no Load.
C25_TwoDimensionalOnly ==
    /\ (SetNumpyDone /\ Len(call.in.shape) # 2)
            => (call.out.kind = "raise" /\ call.sent = <<>>)
    /\ (call.fn = "SetFITS" /\ call.done /\ call.in.ishdul /\ Len(call.in.shape) # 2)
            => (call.out.kind = "raise" /\ call.sent = <<>>)

\* C26: SetFITS of an object that is not an HDU list, and SetNumpy of an
\* object that is not an array, raise before anything is sent.
C26_WrongTypeFails ==
    /\ (call.fn = "SetFITS" /\ call.done /\ ~call.in.ishdul)
            => (call.out.kind = "raise" /\ call.sent = <<>>)
    /\ (call.fn = "SetNumpy" /\ call.done /\ ~call.in.isarray)
            => (call.out.kind = "raise" /\ call.sent = <<>>)
    /\ (call.fn = "SetFITS" /\ call.done /\ js9Globals.fits # 0 /\ ~call.in.ishdul)
            => call.out.exc = "ValueError"
    /\ (call.fn = "SetNumpy" /\ call.done /\ js9Globals.numpy # 0 /\ ~call.in.isarray)
            => call.out.exc = "ValueError"

C26_Witness ==
    /\ call.fn = "SetFITS" /\ call.done /\ ~call.in.ishdul /\ js9Globals.fits = 2
    /\ call.out = Raised("ValueError", <<"requires pyfits.HDUList">>)
    /\ call.sent = <<>>

\* inside the constructor's loop: the probes sent so far are the failed ones
\* (tries, one wait of the delay each) and at most the one under way, and
\* never more than maxtries
InProbeLoop(c) ==
    thread[c].ctx = "init" =>
        /\ thread[c].pc # "ready"
        /\ thread[c].tries < thread[c].maxtries
        /\ wire[c].n \in {thread[c].tries, thread[c].tries + 1}
        /\ wire[c].n <= thread[c].maxtries
        /\ thread[c].pc = "probe" => wire[c].n = thread[c].tries
        /\ thread[c].pc = "sent" => wire[c].n = thread[c].tries + 1

\* the end of a probe: a failure that is not an instance failure waits and
\* counts, and goes round only while tries < maxtries; a success or an
\* instance failure ends the constructor
ProbeEnds(c) ==
    (thread[c].ctx = "init" /\ thread[c].pc = "sent" /\ thread'[c] # thread[c]) =>
        LET out == thread[c].outcome
        IN  IF out.kind = "raise" /\ ~InstanceFailure(out)
            THEN IF thread[c].tries + 1 < thread[c].maxtries
                 THEN /\ thread'[c].pc = "probe" /\ thread'[c].ctx = "init"
                      /\ thread'[c].tries = thread[c].tries + 1
                      /\ thread'[c].maxtries = thread[c].maxtries
                 ELSE thread'[c].pc = "ready" /\ hist'[c].ctor = "returned"
            ELSE thread'[c].pc = "ready" /\ hist'[c].ctor = "returned"

\* a constructor called with maxtries 0 returns without a probe
NoProbeWhenZero(c) ==
    (thread[c].pc = "new" /\ thread'[c].pc # "new") =>
        IF thread'[c].maxtries = 0
        THEN thread'[c].pc = "ready" /\ wire'[c].n = 0 /\ hist'[c].ctor = "returned"
        ELSE thread'[c].pc = "probe" /\ thread'[c].tries = 0 /\ wire'[c].n = 0

\* C27: the constructor ends for every maxtries and every pattern of probe
\* outcomes: it sends at most maxtries probes (none when maxtries is 0), stops
\* at the first probe that succeeds, and waits the delay once after each
\* failed probe that is not an instance failure.
C27_ProbeLoopBounded ==
    /\ [](\A c \in Clients : InProbeLoop(c))
    /\ [][\A c \in Clients : ProbeEnds(c) /\ NoProbeWhenZero(c)]_vars

C27_Witness ==
    /\ thread[Driver].ctx = "init" /\ thread[Driver].maxtries = 2
    /\ thread[Driver].tries = 1 /\ wire[Driver].n = 2
    /\ thread[Driver].pc = "sent" /\ thread[Driver].outcome.kind = "return"

\* the callback of the message send has emitted in this call has stored its
\* value
OwnCallbackStored(c) ==
    /\ thread[c].via = "socketio"
    /\ thread[c].pc \in {"s_wait", "waiting", "woken"}
    /\ self[c].block_cb \notin inflight[c]

\* the callback never notifies the Condition of a call that has not begun to
\* wait, and a caller that waits while its callback has stored is about to
\* be notified by it
NotifyFindsWaiter(c) ==
    /\ (cbthread[c].pc = "locked" /\ cbthread[c].cond = self[c].block_cb /\ Live(c))
            => thread[c].pc \in {"waiting", "woken"}
    /\ (OwnCallbackStored(c) /\ thread[c].pc \in {"s_wait", "waiting"})
            => (cbthread[c].pc \in {"stored", "locked"}
                /\ hist[c].resultOf = self[c].block_cb)

\* a caller woken by a notify, whose own callback has stored, is about to
\* return the value that callback stored
ReturnsOwnValue(c) ==
    (OwnCallbackStored(c) /\ thread[c].pc = "woken" /\ thread[c].woke = "notify")
        => hist[c].resultOf = self[c].block_cb

\* C28: on the socket transport no wake-up is lost: when the callback for the
\* command of this call runs after the emit and before the wait's time has
\* elapsed, even before the caller waits, send is woken by it and returns the
\* value the callback delivered.
C28_NoLostWakeup ==
    \A c \in Clients : NotifyFindsWaiter(c) /\ ReturnsOwnValue(c)

\* C29: when the probe of an assignment to 'id' or 'host' fails, the failure
\* reaches the caller after that one attempt, without the retries of the
\* constructor, and the value stays assigned: later commands use the new id
\* or host.
C29_FailedAssignmentKept ==
    /\ (call.fn = "setitem" /\ ~call.in.probed) => wire[Driver].n <= 1
    /\ (call.fn = "setitem" /\ call.in.failed) =>
            /\ call.out.kind = "raise"
            /\ self[Driver][call.in.item] = call.in.value
    /\ (call.fn = "setitem" /\ call.in.failed
         /\ thread[Driver].ctx = "op" /\ wire[Driver].n > 0) =>
            /\ wire[Driver].n = 1
            /\ call.in.item = "id" => wire[Driver].obj.id = call.in.value
            /\ call.in.item = "host" => wire[Driver].dest = call.in.value

\* C30: on the socket transport a GetNumpy or GetFITS whose GetImageData
\* times out with no reply raises the error of an image too large; an array
\* is returned only of an image object, never of the empty placeholder.
C30_TimeoutTooLarge ==
    /\ (GetDone /\ call.in.woke = "timeout" /\ hist[Driver].resultOf = 0)
            => (/\ call.in.im = Returned(StrVal(<<>>))
                /\ call.out = TooLarge)
    /\ (GetDone /\ call.out.kind = "return")
            => (call.in.im.kind = "return" /\ call.in.im.value.type = "dict")

C30_Witness ==
    /\ GetDone /\ call.fn = "GetNumpy" /\ js9Globals.transport = "socketio"
    /\ call.in.woke = "timeout" /\ hist[Driver].resultOf = 0
    /\ inflight[Driver] # {}
    /\ call.out = TooLarge
====
